---- MODULE Spec2Model ----
(***************************************************************************)
(* gonginx: tokenizer (parser/lexer.go) and recursive-descent parser       *)
(* (parser/parser.go) of nginx configuration text.                         *)
(*                                                                         *)
(* A character is a one-character string, a text is a sequence of          *)
(* characters, and a token literal is a sequence of characters too.        *)
(* NUL stands for the rune 0, which the reader yields at end of input, and *)
(* BACKTICK for the grave accent (U+0060).                                 *)
(***************************************************************************)
EXTENDS Integers, Sequences, FiniteSets, TLC

VARIABLES
    lexer,            \* lexer struct: reader (input, pos), line, column, Latest
    currentToken,     \* Parser.currentToken
    followingToken,   \* Parser.followingToken
    stack,            \* activation records of parseBlock / parseStatement
    pc,               \* where the caller stands
    result,           \* what NewParserFromLexer / Parse returned
    tokens,           \* slice built by lexer.all
    scans,            \* number of calls of lexer.scan so far
    output,           \* text that DumpBlock returned
    first,            \* conf.Block of the parse before the text was rendered
    supplied,         \* the server handed to AddServer, as the caller wrote it
    other,            \* a second Parser, while the first one runs
    alone             \* what each text gave when its parser ran alone

\* what the caller of the parser holds besides the parser
harness == <<output, first, supplied, other, alone>>

vars == <<lexer, currentToken, followingToken, stack, pc, result, tokens, scans,
          output, first, supplied, other, alone>>

----------------------------------------------------------------------------
(* Bounds of the model *)

MaxPieces == 4
MaxLen == 5

----------------------------------------------------------------------------
(* token package: kinds and the Token value *)

NUL == "NUL"
BACKTICK == "BACKTICK"

EOF == "EOF"
Keyword == "Keyword"
QuotedString == "QuotedString"
Variable == "Variable"
BlockStart == "BlockStart"
BlockEnd == "BlockEnd"
Semicolon == "Semicolon"
Comment == "Comment"

\* token.Token{}: the zero value; its Type is 0, which is token.EOF
ZeroToken == [Type |-> EOF, Literal |-> <<>>, Line |-> 0, Column |-> 0]

Lit(tok, literal) == [tok EXCEPT !.Literal = literal]

IsParameterEligible(tok) == tok.Type \notin {BlockStart, BlockEnd, Semicolon, EOF}

----------------------------------------------------------------------------
(* errors *)

NoErr == [kind |-> "nil", msg |-> "", tok |-> ZeroToken]

ErrUnclosedQuote ==
    [kind |-> "lexical",
     msg |-> "unexpected end of file while scanning a string, maybe an unclosed quote? ",
     tok |-> ZeroToken]

----------------------------------------------------------------------------
(* lexer.go: rune classes *)

isEndOfLine(ch) == ch = "\r" \/ ch = "\n"

isSpace(ch) == ch = " " \/ ch = "\t" \/ isEndOfLine(ch)

isEOF(ch) == ch = NUL

isQuote(ch) == ch = "\"" \/ ch = "'" \/ ch = BACKTICK

isKeywordTerminator(ch) == isSpace(ch) \/ isEndOfLine(ch) \/ ch = "{" \/ ch = ";"

\* needsEscape without the backslash case
needsEscapeNoBackslash(ch, delimiter) ==
    ch = delimiter \/ ch = "n" \/ ch = "t" \/ ch = "r"

needsEscape(ch, delimiter) ==
    ch = delimiter \/ ch = "n" \/ ch = "t" \/ ch = "\\" \/ ch = "r"

----------------------------------------------------------------------------
(* lexer.go: the lexer *)

newLexer(content) ==
    [input |-> content, pos |-> 1, line |-> 1, column |-> 0, Latest |-> ZeroToken]

lex(content) == newLexer(content)

peek(s) == IF s.pos > Len(s.input) THEN NUL ELSE s.input[s.pos]

\* read: the rune and the lexer after it
read(s) ==
    IF s.pos > Len(s.input)
    THEN [ch |-> NUL, s |-> s]
    ELSE LET ch == s.input[s.pos]
         IN  [ch |-> ch,
              s  |-> IF ch = "\n"
                     THEN [s EXCEPT !.pos = @ + 1, !.column = 1, !.line = @ + 1]
                     ELSE [s EXCEPT !.pos = @ + 1, !.column = @ + 1]]

\* the literal the read rune contributes to a buffer
Rune(r) == <<r.ch>>

\* type runeCheck func(rune) bool: a check is passed by its name
runeCheck(check, ch) ==
    CASE check = "isSpace" -> isSpace(ch)
      [] check = "isEndOfLine" -> isEndOfLine(ch)
      [] check = "isKeywordTerminator" -> isKeywordTerminator(ch)

\* the loop of readUntil: the buffer so far and the lexer
RECURSIVE readUntilLoop(_, _, _)
readUntilLoop(buf, s, until) ==
    LET ch == peek(s)
    IN  IF isEOF(ch) THEN [str |-> buf, s |-> s]
        ELSE IF runeCheck(until, ch) THEN [str |-> buf, s |-> s]
        ELSE LET r == read(s) IN readUntilLoop(buf \o Rune(r), r.s, until)

readUntil(s, until) ==
    LET r == read(s) IN readUntilLoop(Rune(r), r.s, until)

\* the loop of readWhile
RECURSIVE readWhileLoop(_, _, _)
readWhileLoop(buf, s, while) ==
    IF runeCheck(while, peek(s))
    THEN LET r == read(s) IN readWhileLoop(buf \o Rune(r), r.s, while)
    ELSE [str |-> buf, s |-> s]

readWhile(s, while) ==
    LET r == read(s) IN readWhileLoop(Rune(r), r.s, while)

skipWhitespace(s) == readWhile(s, "isSpace").s

NewToken(s, tokenType) ==
    [Type |-> tokenType, Literal |-> <<>>, Line |-> s.line, Column |-> s.column]

\* a scanner's outcome: the token, the error and the lexer after it
Scanned(tok, err, s) == [tok |-> tok, err |-> err, s |-> s]

scanOne(s, tokenType) ==
    LET r == read(s) IN Scanned(Lit(NewToken(s, tokenType), Rune(r)), NoErr, r.s)

\* tok.Lit(str) of the text r that readUntil gave, and the lexer after it
LitRead(tok, r) == Scanned(Lit(tok, r.str), NoErr, r.s)

scanComment(s) == LitRead(NewToken(s, Comment), readUntil(s, "isEndOfLine"))

scanKeyword(s) == LitRead(NewToken(s, Keyword), readUntil(s, "isKeywordTerminator"))

scanVariable(s) == LitRead(NewToken(s, Variable), readUntil(s, "isKeywordTerminator"))

\* the rune an escape sequence \c stands for
escaped(c, delimiter) ==
    CASE c = "n" -> <<"\n">>
      [] c = "r" -> <<"\r">>
      [] c = "t" -> <<"\t">>
      [] c = "\\" -> <<"\\">>
      [] c = delimiter -> <<delimiter>>
      [] OTHER -> <<>>

\* the loop of scanQuotedString: tok is the token made before the delimiter
\* was consumed, buf the buffer so far
RECURSIVE scanQuotedStringLoop(_, _, _, _)
scanQuotedStringLoop(tok, buf, s, delimiter) ==
    LET r == read(s)
    IN  IF r.ch = NUL
        THEN Scanned(ZeroToken, ErrUnclosedQuote, r.s)
        ELSE IF r.ch = "\\" /\ needsEscape(peek(r.s), delimiter)
        THEN LET e == read(r.s)
             IN  scanQuotedStringLoop(tok, buf \o escaped(e.ch, delimiter), e.s, delimiter)
        ELSE IF r.ch = delimiter
        THEN Scanned(Lit(tok, buf \o <<r.ch>>), NoErr, r.s)
        ELSE scanQuotedStringLoop(tok, buf \o <<r.ch>>, r.s, delimiter)

scanQuotedString(s, delimiter) ==
    LET r == read(s)
    IN  scanQuotedStringLoop(NewToken(s, QuotedString), Rune(r), r.s, delimiter)

RECURSIVE getNextToken(_)
getNextToken(s) ==
    LET ch == peek(s)
    IN  CASE isSpace(ch) -> getNextToken(skipWhitespace(s))
          [] isEOF(ch)   -> scanOne(s, EOF)
          [] ch = ";"    -> scanOne(s, Semicolon)
          [] ch = "{"    -> scanOne(s, BlockStart)
          [] ch = "}"    -> scanOne(s, BlockEnd)
          [] ch = "#"    -> scanComment(s)
          [] ch = "$"    -> scanVariable(s)
          [] isQuote(ch) -> scanQuotedString(s, ch)
          [] OTHER       -> scanKeyword(s)

\* s.Latest, err = g; then the return of scan
setLatest(g) ==
    IF g.err # NoErr
    THEN Scanned(ZeroToken, g.err, [g.s EXCEPT !.Latest = g.tok])
    ELSE Scanned(g.tok, NoErr, [g.s EXCEPT !.Latest = g.tok])

scan(s) == setLatest(getNextToken(s))

----------------------------------------------------------------------------
(* what a run returned *)

NoResult == [kind |-> "none", err |-> NoErr, from |-> "", Directives |-> <<>>]

\* the fields of a Parser and where its caller stands
ParserOf(l, cur, fol, st, at, res, n) ==
    [lexer |-> l, currentToken |-> cur, followingToken |-> fol, stack |-> st,
     pc |-> at, result |-> res, scans |-> n]

\* no second parser
NoParser == ParserOf(lex(<<>>), ZeroToken, ZeroToken, <<>>, "none", NoResult, 0)

\* &gonginx.UpstreamServer{}: Parameters in the order the caller wrote them
NoServer == [Address |-> <<>>, Parameters |-> <<>>, Flags |-> <<>>]

----------------------------------------------------------------------------
(* gonginx: the nodes of the tree.  Every node is a Directive with its     *)
(* variant; a typed node carries the fields its wrapper sets.              *)

Directive(name) ==
    [variant |-> "Directive", Name |-> name, Parameters |-> <<>>,
     hasBlock |-> FALSE, Block |-> <<>>,
     Modifier |-> <<>>, Match |-> <<>>, IncludePath |-> <<>>,
     Address |-> <<>>, Params |-> {}, Flags |-> <<>>, UpstreamServers |-> <<>>]

NoDirective == Directive(<<>>)

NewHttp(directive) == [directive EXCEPT !.variant = "Http"]

NewServer(directive) == [directive EXCEPT !.variant = "Server"]

\* a Go map[string]string: a set of entries with one entry for a key
MapSet(m, k, v) == {e \in m : e.k # k} \cup {[k |-> k, v |-> v]}

\* strings.Index(s, c) + 1, and 0 when c is not in s
IndexOf(s, c) ==
    IF \E i \in 1..Len(s) : s[i] = c
    THEN CHOOSE i \in 1..Len(s) : s[i] = c /\ \A j \in 1..(i - 1) : s[j] # c
    ELSE 0

\* the parameters after the address: key=value ones go to the map, the
\* others to the flags
RECURSIVE ServerParameters(_, _, _)
ServerParameters(uss, parameters, i) ==
    IF i > Len(parameters) THEN uss
    ELSE LET parameter == parameters[i]
             eq == IndexOf(parameter, "=")
         IN  IF eq > 0
             THEN ServerParameters(
                      [uss EXCEPT !.Params = MapSet(@, SubSeq(parameter, 1, eq - 1),
                                                    SubSeq(parameter, eq + 1, Len(parameter)))],
                      parameters, i + 1)
             ELSE ServerParameters([uss EXCEPT !.Flags = Append(@, parameter)],
                                   parameters, i + 1)

NewUpstreamServer(directive) ==
    ServerParameters(
        [directive EXCEPT !.variant = "UpstreamServer",
                          !.Address = IF Len(directive.Parameters) > 0
                                      THEN directive.Parameters[1] ELSE <<>>],
        directive.Parameters, 2)

\* the server entries of a block
ServersOf(block) == SelectSeq(block, LAMBDA d : d.variant = "UpstreamServer")

NewUpstream(directive) ==
    [directive EXCEPT !.variant = "Upstream", !.UpstreamServers = ServersOf(directive.Block)]

----------------------------------------------------------------------------
(* parser.go: directive names *)

W_http == <<"h", "t", "t", "p">>
W_server == <<"s", "e", "r", "v", "e", "r">>
W_location == <<"l", "o", "c", "a", "t", "i", "o", "n">>
W_upstream == <<"u", "p", "s", "t", "r", "e", "a", "m">>
W_include == <<"i", "n", "c", "l", "u", "d", "e">>

----------------------------------------------------------------------------
(* parser.go: errors *)

Semantic(msg) == [kind |-> "semantic", msg |-> msg, tok |-> ZeroToken]

ErrIncludeMultiple == Semantic("include directive can not have multiple parameters")

ErrIncludeBlock ==
    Semantic("include can not have a block, or missing semicolon at the end of include statement")

ErrLocationNoParam == Semantic("no enough parameter for location")

ErrLocationTooMany == Semantic("too many arguments for location directive")

\* the error made from the following token instead of the current one
ErrUnexpectedFollowing(tok) ==
    [kind |-> "syntax", msg |-> "unexpected token", tok |-> followingToken]

\* fmt.Errorf("unexpected token %s (%s) on line %d, column %d", ...)
ErrUnexpectedToken(tok) == [kind |-> "syntax", msg |-> "unexpected token", tok |-> tok]

----------------------------------------------------------------------------
(* parser.go: wrappers.  A wrapper yields the node, the error, and whether *)
(* it panicked instead of returning.                                       *)

Wrapped(node, err) == [node |-> node, err |-> err, panicked |-> FALSE]

Panicked == [node |-> NoDirective, err |-> NoErr, panicked |-> TRUE]

parseInclude(directive) ==
    IF Len(directive.Parameters) = 0
    THEN Panicked       \* directive.Parameters[0]: index out of range
    ELSE IF Len(directive.Parameters) > 1
    THEN Wrapped(NoDirective, ErrIncludeMultiple)
    ELSE IF directive.hasBlock
    THEN Wrapped(NoDirective, ErrIncludeBlock)
    ELSE Wrapped([directive EXCEPT !.variant = "Include",
                                   !.IncludePath = directive.Parameters[1]], NoErr)

\* wrapLocation with modifier and match exchanged in the two-parameter case
wrapLocationSwapped(directive) ==
    IF Len(directive.Parameters) = 0
    THEN Wrapped(NoDirective, ErrLocationNoParam)
    ELSE IF Len(directive.Parameters) = 1
    THEN Wrapped([directive EXCEPT !.variant = "Location",
                                   !.Modifier = <<>>,
                                   !.Match = directive.Parameters[1]], NoErr)
    ELSE IF Len(directive.Parameters) = 2
    THEN Wrapped([directive EXCEPT !.variant = "Location",
                                   !.Modifier = directive.Parameters[2],
                                   !.Match = directive.Parameters[1]], NoErr)
    ELSE Wrapped(NoDirective, ErrLocationTooMany)

wrapLocation(directive) ==
    IF Len(directive.Parameters) = 0
    THEN Wrapped(NoDirective, ErrLocationNoParam)
    ELSE IF Len(directive.Parameters) = 1
    THEN Wrapped([directive EXCEPT !.variant = "Location",
                                   !.Modifier = <<>>,
                                   !.Match = directive.Parameters[1]], NoErr)
    ELSE IF Len(directive.Parameters) = 2
    THEN Wrapped([directive EXCEPT !.variant = "Location",
                                   !.Modifier = directive.Parameters[1],
                                   !.Match = directive.Parameters[2]], NoErr)
    ELSE Wrapped(NoDirective, ErrLocationTooMany)

wrapServer(directive) == NewServer(directive)

wrapUpstream(directive) == NewUpstream(directive)

wrapHttp(directive) == NewHttp(directive)

parseUpstreamServer(directive) == NewUpstreamServer(directive)

\* Parser.blockWrappers: the names registered, and the wrapper of a name
blockWrapperNames == {W_http, W_server, W_location, W_upstream}

blockWrappers(name, directive) ==
    CASE name = W_http     -> Wrapped(wrapHttp(directive), NoErr)
      [] name = W_server   -> Wrapped(wrapServer(directive), NoErr)
      [] name = W_location -> wrapLocation(directive)
      [] name = W_upstream -> Wrapped(wrapUpstream(directive), NoErr)

\* Parser.directiveWrappers
directiveWrapperNames == {W_server, W_include}

directiveWrappers(name, directive) ==
    CASE name = W_server  -> Wrapped(parseUpstreamServer(directive), NoErr)
      [] name = W_include -> parseInclude(directive)

\* a lookup that consults both tables for a directive with a block
applyBlockWrapperAnyTable(d) ==
    IF d.Name \in blockWrapperNames THEN blockWrappers(d.Name, d)
    ELSE IF d.Name \in directiveWrapperNames THEN directiveWrappers(d.Name, d)
    ELSE Wrapped(d, NoErr)

\* if bw, ok := p.blockWrappers[d.Name]; ok { return bw(d) }; return d, nil
applyBlockWrapper(d) ==
    IF d.Name \in blockWrapperNames THEN blockWrappers(d.Name, d) ELSE Wrapped(d, NoErr)

\* if dw, ok := p.directiveWrappers[d.Name]; ok { return dw(d) }; return d, nil
applyDirectiveWrapper(d) ==
    IF d.Name \in directiveWrapperNames
    THEN directiveWrappers(d.Name, d)
    ELSE Wrapped(d, NoErr)

----------------------------------------------------------------------------
(* parser.go: the two-token window *)

\* nextToken that puts the scanned token in both fields
shiftTokensSkipping(following, v) ==
    [lexer |-> v.s, currentToken |-> v.tok, followingToken |-> v.tok,
     err |-> v.err]

\* Parser.nextToken on a parser with this lexer and this following token
shiftTokens(following, v) ==
    [lexer |-> v.s, currentToken |-> following, followingToken |-> v.tok,
     err |-> v.err]

\* nextToken that drops the error of scan
nextTokenDroppingErr(l, following) ==
    [shiftTokens(following, scan(l)) EXCEPT !.err = NoErr]

nextToken(l, following) == shiftTokens(following, scan(l))

curTokenIs(t) == currentToken.Type = t

followingTokenIs(t) == followingToken.Type = t

\* the parser after a call of nextToken that gave n
Advance(n) ==
    /\ lexer' = n.lexer
    /\ currentToken' = n.currentToken
    /\ followingToken' = n.followingToken
    /\ scans' = scans + 1

----------------------------------------------------------------------------
(* parser.go: activation records *)

BlockFrame == [fn |-> "parseBlock", Directives |-> <<>>, d |-> NoDirective]

StatementFrame(d) == [fn |-> "parseStatement", Directives |-> <<>>, d |-> d]

Top == stack[Len(stack)]

Pop(n) == SubSeq(stack, 1, Len(stack) - n)

\* context.Directives = append(context.Directives, di) in the frame on top of rest
AppendDirective(rest, di) ==
    [rest EXCEPT ![Len(rest)].Directives = Append(@, di)]

----------------------------------------------------------------------------
(* parser.go: how a call chain ends *)

\* an error returned together with the directives parsed so far
FailWithPartialTree(err) ==
    /\ pc' = "done"
    /\ stack' = <<>>
    /\ result' = [kind |-> "error", err |-> err, from |-> "Parse",
                  Directives |-> stack[1].Directives]

\* return nil, err through parseStatement, parseBlock and Parse
Fail(err) ==
    /\ pc' = "done"
    /\ stack' = <<>>
    /\ result' = [kind |-> "error", err |-> err, from |-> "Parse", Directives |-> <<>>]

\* a runtime panic unwinds every frame; nothing is returned
Panic ==
    /\ pc' = "done"
    /\ stack' = <<>>
    /\ result' = [kind |-> "panic", err |-> NoErr, from |-> "Parse", Directives |-> <<>>]

\* parseStatement returned w to the loop of parseBlock whose frame tops rest:
\* the error check, the append and the nextToken that ends the iteration
StatementReturns(w, rest) ==
    IF w.panicked
    THEN Panic /\ UNCHANGED <<lexer, currentToken, followingToken, scans>>
    ELSE IF w.err # NoErr
    THEN Fail(w.err) /\ UNCHANGED <<lexer, currentToken, followingToken, scans>>
    ELSE \E n \in {nextToken(lexer, followingToken)} :
             /\ Advance(n)
             /\ IF n.err # NoErr
                THEN Fail(n.err)
                ELSE /\ stack' = AppendDirective(rest, w.node)
                     /\ pc' = "parseBlock"
                     /\ UNCHANGED result

----------------------------------------------------------------------------
(* texts of the tests and of the examples, which every run includes *)

\* an unclosed block: server { a;
T_UnclosedServer ==
    << "s", "e", "r", "v", "e", "r", " ", "{", " ", "a", ";" >>

\* parameters that run into a block end: server { a b c }
T_MissingSemicolon ==
    << "s", "e", "r", "v", "e", "r", " ", "{", " ", "a", " ", "b", " ", "c",
       " ", "}" >>

\* a quoted string with the escapes \n, \\ and \"
T_Escapes ==
    << "\"", "a", "\\", "n", "b", "\\", "\\", "c", "\\", "\"", "d", "\"" >>

\* backtick and single quotes with \r, \t and a foreign \"
T_OtherQuotes ==
    << BACKTICK, "x", "\\", BACKTICK, "\\", "r", "\\", "t", BACKTICK, " ",
       "'", "y", "\\", "'", "\\", "\"", "'", " ", ";" >>

\* an unterminated string on the second line
T_UnterminatedLater ==
    << "a", " ", "b", ";", "\n", "c", " ", "\"", "a", "b", "c" >>

\* a block end with no open block
T_StrayBlockEnd ==
    << "a", ";", " ", "}", " ", "b", ";" >>

\* TestParser_CurrFollow
T_CurrFollow ==
    << "\n", "\t", "s", "e", "r", "v", "e", "r", " ", "{", " ", "#", " ",
       "s", "i", "m", "p", "l", "e", " ", "r", "e", "v", "e", "r", "s", "e",
       "-", "p", "r", "o", "x", "y", "\n", "\t", "}", "\n", "\t" >>

\* TestParser_UnendedInclude
T_UnendedInclude ==
    << "\n", "\t", "s", "e", "r", "v", "e", "r", " ", "{", " ", "\n", "\t",
       "i", "n", "c", "l", "u", "d", "e", " ", "/", "b", "u", "t", "/", "n",
       "o", "/", "s", "e", "m", "i", "c", "o", "l", "o", "n", " ", "b", "e",
       "f", "o", "r", "e", " ", "b", "l", "o", "c", "k", ";", "\n", "\t" >>

\* TestParser_LocationTooManyParam
T_LocationTooManyParam ==
    << "\n", "\t", "s", "e", "r", "v", "e", "r", " ", "{", " ", "\n", "\t",
       "l", "o", "c", "a", "t", "i", "o", "n", " ", "o", "n", "e", " ", "t",
       "w", "o", " ", "t", "h", "r", "e", "e", " ", "f", "o", "u", "r", " ",
       "{", "}", " ", "#", "l", "o", "c", "a", "t", "i", "o", "n", " ", "w",
       "i", "t", "h", " ", "t", "o", "o", " ", "m", "a", "n", "y", " ", "a",
       "r", "g", "u", "m", "e", "n", "t", "s", "\n", "\t" >>

\* TestParser_Location
T_Location ==
    << "\n", "\t", "\t", "l", "o", "c", "a", "t", "i", "o", "n", " ", "~",
       " ", "/", "a", "n", "d", "/", "e", "n", "d", "s", "{", "\n", "\t",
       "\t", "\t", "\n", "\t", "\t", "}", " ", "\n", "\t" >>

\* TestParser_VariableAsParameter
T_VariableAsParameter ==
    << "\n", "\t", "\t", "\t", "m", "a", "p", " ", "$", "h", "o", "s", "t",
       " ", "$", "c", "l", "i", "e", "n", "t", "n", "a", "m", "e", " ", "{",
       "\n", "\t", "\t", "\t", "\t", "d", "e", "f", "a", "u", "l", "t", " ",
       "-", ";", "\n", "\t", "\t", "\t", "}", "\n", "\t" >>

\* examples/adding-server
T_AddingServer ==
    << "h", "t", "t", "p", "{", "\n", "\t", "u", "p", "s", "t", "r", "e",
       "a", "m", " ", "m", "y", "_", "b", "a", "c", "k", "e", "n", "d", "{",
       "\n", "\t", "\t", "s", "e", "r", "v", "e", "r", " ", "1", "2", "7",
       ".", "0", ".", "0", ".", "1", ":", "4", "4", "3", ";", "\n", "\t",
       "\t", "s", "e", "r", "v", "e", "r", " ", "1", "2", "7", ".", "0",
       ".", "0", ".", "2", ":", "4", "4", "3", " ", "b", "a", "c", "k", "u",
       "p", ";", "\n", "\t", "}", "\n", "\t", "}" >>

Corpus ==
    { T_UnclosedServer,
      T_MissingSemicolon,
      T_Escapes,
      T_OtherQuotes,
      T_UnterminatedLater,
      T_StrayBlockEnd,
      T_CurrFollow,
      T_UnendedInclude,
      T_LocationTooManyParam,
      T_Location,
      T_VariableAsParameter,
      T_AddingServer }

----------------------------------------------------------------------------
(* texts the parser is run on: up to MaxPieces pieces, one after another,  *)
(* and the corpus                                                          *)

Pieces ==
    { W_include \o <<" ">>, W_location \o <<" ">>, W_server \o <<" ">>,
      <<"a", " ">>, <<"b", " ">>, <<";">>, <<"{">>, <<"}">>, <<"\"">> }

\* the pieces of ps, one after another
RECURSIVE Join(_)
Join(ps) == IF ps = <<>> THEN <<>> ELSE Head(ps) \o Join(Tail(ps))

\* the parser is given the text of a lexer made by lex
ParseInputs(l) ==
    \/ \E n \in 0..MaxPieces : \E ps \in [1..n -> Pieces] : l = lex(Join(ps))
    \/ \E t \in Corpus : l = lex(t)

----------------------------------------------------------------------------
(* parser.go: NewStringParser, NewParserFromLexer, Parse *)

Init ==
    /\ ParseInputs(lexer)
    /\ currentToken = ZeroToken
    /\ followingToken = ZeroToken
    /\ stack = <<>>
    /\ pc = "new"
    /\ result = NoResult
    /\ tokens = <<>>
    /\ scans = 0
    /\ output = <<>>
    /\ first = NoResult
    /\ supplied = NoServer
    /\ other = NoParser
    /\ alone = <<>>

ConstructorFails(err) ==
    /\ pc' = "done"
    /\ result' = [kind |-> "error", err |-> err, from |-> "NewParserFromLexer",
                  Directives |-> <<>>]

NewParserFromLexer ==
    /\ pc = "new"
    /\ \E n1 \in {nextToken(lexer, followingToken)} :
           IF n1.err # NoErr
           THEN Advance(n1) /\ ConstructorFails(n1.err)
           ELSE \E n2 \in {nextToken(n1.lexer, n1.followingToken)} :
                /\ lexer' = n2.lexer
                /\ currentToken' = n2.currentToken
                /\ followingToken' = n2.followingToken
                /\ scans' = scans + 2
                /\ IF n2.err # NoErr
                   THEN ConstructorFails(n2.err)
                   ELSE pc' = "ready" /\ UNCHANGED result
    /\ UNCHANGED <<stack, tokens>>
    /\ UNCHANGED harness

\* Parse calls parseBlock, which makes its context
Parse ==
    /\ pc = "ready"
    /\ stack' = <<BlockFrame>>
    /\ pc' = "parseBlock"
    /\ UNCHANGED <<lexer, currentToken, followingToken, result, tokens, scans>>
    /\ UNCHANGED harness

\* parseBlock: a token that is no keyword and ends no block is skipped
parseBlockSkip ==
    /\ pc = "parseBlock"
    /\ ~(curTokenIs(EOF) \/ curTokenIs(BlockEnd))
    /\ ~curTokenIs(Keyword)
    /\ \E n \in {nextToken(lexer, followingToken)} :
           /\ Advance(n)
           /\ IF n.err # NoErr THEN Fail(n.err) ELSE UNCHANGED <<pc, stack, result>>
    /\ UNCHANGED tokens
    /\ UNCHANGED harness

\* parseBlock on a keyword: parseStatement takes the name and advances
parseStatementName ==
    /\ pc = "parseBlock"
    /\ ~(curTokenIs(EOF) \/ curTokenIs(BlockEnd))
    /\ curTokenIs(Keyword)
    /\ \E n \in {nextToken(lexer, followingToken)} :
           /\ Advance(n)
           /\ IF n.err # NoErr
              THEN Fail(n.err)
              ELSE /\ stack' = Append(stack, StatementFrame(Directive(currentToken.Literal)))
                   /\ pc' = "parseStatement"
                   /\ UNCHANGED result
    /\ UNCHANGED tokens
    /\ UNCHANGED harness

\* parseStatement: one turn of the parameter loop
parseStatementParameter ==
    /\ pc = "parseStatement"
    /\ IsParameterEligible(currentToken)
    /\ \E n \in {nextToken(lexer, followingToken)} :
           /\ Advance(n)
           /\ IF n.err # NoErr
              THEN Fail(n.err)
              ELSE /\ stack' = [stack EXCEPT ![Len(stack)].d.Parameters =
                                                 Append(@, currentToken.Literal)]
                   /\ UNCHANGED <<pc, result>>
    /\ UNCHANGED tokens
    /\ UNCHANGED harness

\* parseStatement: the parameters end with a semicolon
parseStatementSemicolon ==
    /\ pc = "parseStatement"
    /\ ~IsParameterEligible(currentToken)
    /\ curTokenIs(Semicolon)
    /\ StatementReturns(applyDirectiveWrapper(Top.d), Pop(1))
    /\ UNCHANGED tokens
    /\ UNCHANGED harness

\* parseStatement: the parameters end with a block start; parseBlock is called
parseStatementBlockStart ==
    /\ pc = "parseStatement"
    /\ ~IsParameterEligible(currentToken)
    /\ ~curTokenIs(Semicolon)
    /\ curTokenIs(BlockStart)
    /\ stack' = Append(stack, BlockFrame)
    /\ pc' = "parseBlock"
    /\ UNCHANGED <<lexer, currentToken, followingToken, result, tokens, scans>>
    /\ UNCHANGED harness

\* parseStatement: the parameters end with any other token
parseStatementUnexpected ==
    /\ pc = "parseStatement"
    /\ ~IsParameterEligible(currentToken)
    /\ ~curTokenIs(Semicolon)
    /\ ~curTokenIs(BlockStart)
    /\ Fail(ErrUnexpectedToken(currentToken))
    /\ UNCHANGED <<lexer, currentToken, followingToken, tokens, scans>>
    /\ UNCHANGED harness

\* parseBlock called by parseStatement stops: the block is attached and wrapped
parseBlockReturn ==
    /\ pc = "parseBlock"
    /\ curTokenIs(EOF) \/ curTokenIs(BlockEnd)
    /\ Len(stack) > 1
    /\ StatementReturns(applyBlockWrapper([stack[Len(stack) - 1].d EXCEPT
                                               !.hasBlock = TRUE,
                                               !.Block = Top.Directives]),
                        Pop(2))
    /\ UNCHANGED tokens
    /\ UNCHANGED harness

\* Parse that takes a block end with no open block for a syntax error
ParseReturnStrict ==
    /\ pc = "parseBlock"
    /\ curTokenIs(EOF) \/ curTokenIs(BlockEnd)
    /\ Len(stack) = 1
    /\ IF curTokenIs(BlockEnd)
       THEN Fail(ErrUnexpectedToken(currentToken))
       ELSE /\ result' = [kind |-> "config", err |-> NoErr, from |-> "Parse",
                          Directives |-> Top.Directives]
            /\ stack' = <<>>
            /\ pc' = "done"
    /\ UNCHANGED <<lexer, currentToken, followingToken, tokens, scans>>
    /\ UNCHANGED harness

\* parseBlock called by Parse stops: Parse returns the Config
ParseReturn ==
    /\ pc = "parseBlock"
    /\ curTokenIs(EOF) \/ curTokenIs(BlockEnd)
    /\ Len(stack) = 1
    /\ result' = [kind |-> "config", err |-> NoErr, from |-> "Parse",
                  Directives |-> Top.Directives]
    /\ stack' = <<>>
    /\ pc' = "done"
    /\ UNCHANGED <<lexer, currentToken, followingToken, tokens, scans>>
    /\ UNCHANGED harness

Next ==
    \/ NewParserFromLexer
    \/ Parse
    \/ parseBlockSkip
    \/ parseStatementName
    \/ parseStatementParameter
    \/ parseStatementSemicolon
    \/ parseStatementBlockStart
    \/ parseStatementUnexpected
    \/ parseBlockReturn
    \/ ParseReturn

Spec == Init /\ [][Next]_vars

----------------------------------------------------------------------------
(* texts the lexer is run on: every text over LexAlphabet up to MaxLen,    *)
(* and the corpus                                                          *)

LexAlphabet == {"a", "n", "\\", "\"", "'", " ", "\n", ";"}

LexInputs(l) ==
    \/ \E n \in 0..MaxLen : \E t \in [1..n -> LexAlphabet] : l = lex(t)
    \/ \E t \in Corpus : l = lex(t)

----------------------------------------------------------------------------
(* lexer.all: scan until the end-of-input token *)

InitLex ==
    /\ LexInputs(lexer)
    /\ currentToken = ZeroToken
    /\ followingToken = ZeroToken
    /\ stack = <<>>
    /\ pc = "all"
    /\ result = NoResult
    /\ tokens = <<>>
    /\ scans = 0
    /\ output = <<>>
    /\ first = NoResult
    /\ supplied = NoServer
    /\ other = NoParser
    /\ alone = <<>>

all ==
    /\ pc = "all"
    /\ \E v \in {scan(lexer)} :
           /\ lexer' = v.s
           /\ scans' = scans + 1
           /\ IF v.err # NoErr
              THEN /\ tokens' = <<>>
                   /\ result' = [NoResult EXCEPT !.kind = "error", !.err = v.err, !.from = "all"]
                   /\ pc' = "done"
              ELSE IF v.tok.Type = EOF
              THEN /\ tokens' = tokens
                   /\ result' = [NoResult EXCEPT !.kind = "tokens", !.from = "all"]
                   /\ pc' = "done"
              ELSE /\ tokens' = Append(tokens, v.tok)
                   /\ UNCHANGED <<result, pc>>
    /\ UNCHANGED <<currentToken, followingToken, stack>>
    /\ UNCHANGED harness

NextLex == all

SpecLex == InitLex /\ [][NextLex]_vars

----------------------------------------------------------------------------
(* gonginx: DumpBlock.  A directive is written as its name, its parameters  *)
(* after one space each, and a semicolon or its block in braces; the       *)
(* directives of a block stand on lines of their own, one indentation      *)
(* level deeper than the directive that holds the block.                   *)

\* the style with indentation; its width is an option of the style, here
\* four spaces for each level
IndentedStyle == [Indent |-> 4]

\* the indentation of a line at the given depth
Indentation(style, depth) == [i \in 1..(depth * style.Indent) |-> " "]

RECURSIVE SpaceBefore(_)
SpaceBefore(parameters) ==
    IF parameters = <<>> THEN <<>>
    ELSE <<" ">> \o Head(parameters) \o SpaceBefore(Tail(parameters))

RECURSIVE DumpLevel(_, _, _), DumpDirective(_, _, _)
DumpDirective(d, style, depth) ==
    Indentation(style, depth) \o d.Name \o SpaceBefore(d.Parameters)
        \o IF d.hasBlock
           THEN <<" ", "{", "\n">> \o DumpLevel(d.Block, style, depth + 1)
                    \o <<"\n">> \o Indentation(style, depth) \o <<"}">>
           ELSE <<";">>

\* the directives of a block, each on its line at the given depth
DumpLevel(block, style, depth) ==
    IF block = <<>> THEN <<>>
    ELSE IF Len(block) = 1 THEN DumpDirective(block[1], style, depth)
    ELSE DumpDirective(Head(block), style, depth) \o <<"\n">>
             \o DumpLevel(Tail(block), style, depth)

DumpBlock(block, style) == DumpLevel(block, style, 0)

----------------------------------------------------------------------------
(* render(parse(text)) parsed again: the round trip *)

\* a quoted string with an escaped delimiter: "x\"y"
Q_EscapedQuote == <<"\"", "x", "\\", "\"", "y", "\"", " ">>

\* a quoted string with an escaped backslash before n: "\\n"
Q_EscapedBackslash == <<"\"", "\\", "\\", "n", "\"", " ">>

\* a quoted string with no escape: "x y"
Q_Plain == <<"\"", "x", " ", "y", "\"", " ">>

RoundTripPieces ==
    { <<"a", " ">>, W_server \o <<" ">>, <<";">>, <<"{">>, <<"}">>,
      Q_Plain, Q_EscapedQuote, Q_EscapedBackslash }

RoundTripInputs(l) ==
    \/ \E n \in 0..MaxPieces : \E ps \in [1..n -> RoundTripPieces] : l = lex(Join(ps))
    \/ \E t \in Corpus : l = lex(t)

InitRoundTrip ==
    /\ RoundTripInputs(lexer)
    /\ currentToken = ZeroToken
    /\ followingToken = ZeroToken
    /\ stack = <<>>
    /\ pc = "new"
    /\ result = NoResult
    /\ tokens = <<>>
    /\ scans = 0
    /\ output = <<>>
    /\ first = NoResult
    /\ supplied = NoServer
    /\ other = NoParser
    /\ alone = <<>>

\* the rendering of the Config that Parse returned, in the style the example
\* asks for
Render ==
    /\ pc = "done"
    /\ result.kind = "config"
    /\ output' = DumpBlock(result.Directives, IndentedStyle)
    /\ pc' = "dumped"
    /\ UNCHANGED <<lexer, currentToken, followingToken, stack, result, tokens, scans,
                   first, supplied, other, alone>>

\* NewStringParser on the rendered text; the first Config is kept
ParseAgain ==
    /\ pc = "dumped"
    /\ first.kind = "none"
    /\ first' = result
    /\ lexer' = lex(output)
    /\ currentToken' = ZeroToken
    /\ followingToken' = ZeroToken
    /\ result' = NoResult
    /\ scans' = 0
    /\ pc' = "new"
    /\ UNCHANGED <<stack, tokens, output, supplied, other, alone>>

NextRoundTrip ==
    \/ Next
    \/ Render
    \/ ParseAgain

SpecRoundTrip == InitRoundTrip /\ [][NextRoundTrip]_vars

----------------------------------------------------------------------------
(* gonginx: FindUpstreams and AddServer.  A pointer to a node is the path   *)
(* of indexes that leads to it from the root block.                        *)

RECURSIVE FindFrom(_, _, _)
FindFrom(block, i, prefix) ==
    IF i > Len(block) THEN <<>>
    ELSE (IF block[i].variant = "Upstream" THEN << prefix \o <<i>> >> ELSE <<>>)
         \o (IF block[i].hasBlock
             THEN FindFrom(block[i].Block, 1, prefix \o <<i>>) ELSE <<>>)
         \o FindFrom(block, i + 1, prefix)

\* Config.FindUpstreams: the Upstream nodes in source order, at any depth
FindUpstreams(block) == FindFrom(block, 1, <<>>)

RECURSIVE NodeAt(_, _)
NodeAt(block, path) ==
    IF Len(path) = 1 THEN block[path[1]]
    ELSE NodeAt(block[path[1]].Block, Tail(path))

RECURSIVE ReplaceAt(_, _, _)
ReplaceAt(block, path, node) ==
    IF Len(path) = 1 THEN [block EXCEPT ![path[1]] = node]
    ELSE [block EXCEPT ![path[1]].Block = ReplaceAt(@, Tail(path), node)]

\* the map a literal map[string]string{k1: v1, ...} denotes
MapOf(entries) == {entries[i] : i \in 1..Len(entries)}

\* the orders in which a range over the map m can yield its entries
RangeOrders(m) ==
    {ord \in [1..Cardinality(m) -> m] :
        \A i, j \in 1..Cardinality(m) : i # j => ord[i] # ord[j]}

KeyValue(entry) == entry.k \o <<"=">> \o entry.v

\* the node of a server the caller built: its parameters are the address,
\* the entries of the map as the range ord yields them, and the flags
UpstreamServerOf(server, ord) ==
    [Directive(W_server) EXCEPT
        !.variant = "UpstreamServer",
        !.Parameters = <<server.Address>> \o [i \in 1..Len(ord) |-> KeyValue(ord[i])]
                                          \o server.Flags,
        !.Address = server.Address,
        !.Params = MapOf(server.Parameters),
        !.Flags = server.Flags]

\* Upstream.AddServer: the typed list and the block that is rendered both
\* get the server
AddServerNode(us, node) ==
    [us EXCEPT !.UpstreamServers = Append(@, node), !.Block = Append(@, node)]

----------------------------------------------------------------------------
(* examples/adding-server: parse, FindUpstreams, AddServer, DumpBlock, one  *)
(* after another; an error of the parser and a Config with no upstream     *)
(* end the program with a panic.                                           *)

W_weight == <<"w", "e", "i", "g", "h", "t">>
W_down == <<"d", "o", "w", "n">>
W_address == <<"1", "2", "7", ".", "0", ".", "0", ".", "1", ":", "4", "4", "3">>

\* the server of the example: 127.0.0.1:443, weight=5, down
ExampleServer ==
    [Address |-> W_address,
     Parameters |-> << [k |-> W_weight, v |-> <<"5">>] >>,
     Flags |-> << W_down >>]

\* the servers a caller hands to AddServer
ServersSupplied ==
    { ExampleServer,
      [Address |-> <<"c">>, Parameters |-> <<>>, Flags |-> <<>>],
      [Address |-> <<"c">>,
       Parameters |-> << [k |-> <<"w">>, v |-> <<"1">>], [k |-> <<"m">>, v |-> <<"2">>] >>,
       Flags |-> << <<"f">>, <<"g">> >>],
      [Address |-> <<"c">>,
       Parameters |-> << [k |-> <<"m">>, v |-> <<"2">>], [k |-> <<"w">>, v |-> <<"1">>] >>,
       Flags |-> <<>>] }

AddServerPieces ==
    { W_upstream \o <<" ", "u", " ", "{", " ">>,
      W_http \o <<" ", "{", " ">>,
      W_server \o <<" ", "a", ";", " ">>,
      W_server \o <<" ", "b", " ", "w", "=", "1", " ", "f", ";", " ">>,
      W_server \o <<" ", "c", " ">>,
      <<"}", " ">> }

AddServerInputs(l) ==
    \/ \E n \in 0..MaxPieces : \E ps \in [1..n -> AddServerPieces] : l = lex(Join(ps))
    \/ l = lex(T_AddingServer)

InitAddServer ==
    /\ AddServerInputs(lexer)
    /\ currentToken = ZeroToken
    /\ followingToken = ZeroToken
    /\ stack = <<>>
    /\ pc = "new"
    /\ result = NoResult
    /\ tokens = <<>>
    /\ scans = 0
    /\ output = <<>>
    /\ first = NoResult
    /\ supplied = NoServer
    /\ other = NoParser
    /\ alone = <<>>

\* panic(err) after NewStringParser or Parse returned an error, and the
\* index out of range of upstreams[0] when the Config has no upstream
PanicInMain ==
    /\ pc = "done"
    /\ \/ result.kind = "error"
       \/ result.kind = "config" /\ FindUpstreams(result.Directives) = <<>>
    /\ pc' = "panicked"
    /\ UNCHANGED <<lexer, currentToken, followingToken, stack, result, tokens, scans,
                   harness>>

\* upstreams := conf.FindUpstreams(); upstreams[0].AddServer(server)
AddServer ==
    /\ pc = "done"
    /\ result.kind = "config"
    /\ FindUpstreams(result.Directives) # <<>>
    /\ pc' = "added"
    /\ \E server \in ServersSupplied :
       \E ord \in RangeOrders(MapOf(server.Parameters)) :
       \E path \in {FindUpstreams(result.Directives)[1]} :
           /\ supplied' = server
           /\ first' = result
           /\ result' = [result EXCEPT !.Directives =
                             ReplaceAt(@, path,
                                       AddServerNode(NodeAt(@, path),
                                                     UpstreamServerOf(server, ord)))]
    /\ UNCHANGED <<lexer, currentToken, followingToken, stack, tokens, scans,
                   output, other, alone>>

\* fmt.Println(gonginx.DumpBlock(conf.Block, gonginx.IndentedStyle))
Dump ==
    /\ pc = "added"
    /\ output' = DumpBlock(result.Directives, IndentedStyle)
    /\ pc' = "dumped"
    /\ UNCHANGED <<lexer, currentToken, followingToken, stack, result, tokens, scans,
                   first, supplied, other, alone>>

NextAddServer ==
    \/ Next
    \/ PanicInMain
    \/ AddServer
    \/ Dump

SpecAddServer == InitAddServer /\ [][NextAddServer]_vars

----------------------------------------------------------------------------
(* Two parsers over two texts.  Each text is first parsed alone; then a    *)
(* parser is made for each and the two are advanced in any interleaving:   *)
(* the variables hold the parser that runs, other the one that waits.      *)

MaxTwo == 2

TwoPieces == { <<"a", " ">>, <<";">>, <<"{">>, <<"}">>, <<"\"">> }

\* a parser that NewStringParser is about to make from the text
Fresh(text) == ParserOf(lex(text), ZeroToken, ZeroToken, <<>>, "new", NoResult, 0)

\* the fields of the parser that runs
Running == ParserOf(lexer, currentToken, followingToken, stack, pc, result, scans)

\* resuming p with another parser's lexer: the two share one lexer
ResumeSharedLexer(p) ==
    /\ lexer' = lexer
    /\ currentToken' = p.currentToken
    /\ followingToken' = p.followingToken
    /\ stack' = p.stack
    /\ pc' = p.pc
    /\ result' = p.result
    /\ scans' = p.scans

\* the parser p runs next: every field of a Parser is its own
Resume(p) ==
    /\ lexer' = p.lexer
    /\ currentToken' = p.currentToken
    /\ followingToken' = p.followingToken
    /\ stack' = p.stack
    /\ pc' = p.pc
    /\ result' = p.result
    /\ scans' = p.scans

InitTwo ==
    /\ \E n1, n2 \in 0..MaxTwo :
           \E ps \in [1..n1 -> TwoPieces] : \E qs \in [1..n2 -> TwoPieces] :
               /\ Join(ps) # Join(qs)
               /\ lexer = lex(Join(ps))
               /\ other = Fresh(Join(qs))
    /\ currentToken = ZeroToken
    /\ followingToken = ZeroToken
    /\ stack = <<>>
    /\ pc = "new"
    /\ result = NoResult
    /\ tokens = <<>>
    /\ scans = 0
    /\ output = <<>>
    /\ first = NoResult
    /\ supplied = NoServer
    /\ alone = <<>>

\* the run of a parser alone has ended: its outcome is noted, and the
\* parser of the other text is made; the text parsed is parsed again later
NextAlone ==
    /\ pc = "done"
    /\ Len(alone) < 2
    /\ alone' = Append(alone, [input |-> lexer.input, result |-> result])
    /\ Resume(other)
    /\ other' = Fresh(lexer.input)
    /\ UNCHANGED <<tokens, output, first, supplied>>

\* the scheduler lets the other parser run
Switch ==
    /\ Len(alone) = 2
    /\ other' = Running
    /\ Resume(other)
    /\ UNCHANGED <<tokens, output, first, supplied, alone>>

NextTwo ==
    \/ Next
    \/ NextAlone
    \/ Switch

SpecTwo == InitTwo /\ [][NextTwo]_vars

----------------------------------------------------------------------------
(* Reference notions the properties are stated with *)

\* index of the first character at or after i that is no white space
RECURSIVE FirstNonSpace(_, _)
FirstNonSpace(text, i) ==
    IF i > Len(text) THEN i
    ELSE IF text[i] \in {" ", "\t", "\r", "\n"} THEN FirstNonSpace(text, i + 1)
    ELSE i

\* 1-based line and column of the i-th character of text
RefLine(text, i) == 1 + Cardinality({j \in 1..(i - 1) : text[j] = "\n"})

RefLineStart(text, i) ==
    LET breaks == {j \in 1..(i - 1) : text[j] = "\n"}
    IN  IF breaks = {} THEN 0 ELSE CHOOSE j \in breaks : \A k \in breaks : k <= j

RefColumn(text, i) == i - RefLineStart(text, i)

\* the character an escape \c denotes
RefDecoded(c) ==
    CASE c = "n" -> "\n"
      [] c = "r" -> "\r"
      [] c = "t" -> "\t"
      [] OTHER -> c

RefPrepend(c, r) == [r EXCEPT !.lit = <<c>> \o @]

\* the body of a string quoted with q, read from index i (after the opening
\* delimiter): whether a closing delimiter exists, the decoded body, and the
\* index after the closing delimiter
RECURSIVE RefQuoted(_, _, _)
RefQuoted(text, i, q) ==
    IF i > Len(text) THEN [ok |-> FALSE, lit |-> <<>>, next |-> i]
    ELSE IF text[i] = q THEN [ok |-> TRUE, lit |-> <<>>, next |-> i + 1]
    ELSE IF text[i] = "\\" /\ i < Len(text) /\ text[i + 1] \in {"n", "r", "t", "\\", q}
    THEN RefPrepend(RefDecoded(text[i + 1]), RefQuoted(text, i + 2, q))
    ELSE RefPrepend(text[i], RefQuoted(text, i + 1, q))

\* the next token of lexer l is a quoted string
QuoteAhead(l) ==
    /\ FirstNonSpace(l.input, l.pos) <= Len(l.input)
    /\ isQuote(l.input[FirstNonSpace(l.input, l.pos)])

\* the quoted string that starts at index i of text
RefQuotedAt(text, i) == RefQuoted(text, i + 1, text[i])

\* the next token of lexer l is a quoted string that no delimiter closes
UnterminatedAhead(l) ==
    /\ QuoteAhead(l)
    /\ ~RefQuotedAt(l.input, FirstNonSpace(l.input, l.pos)).ok

\* the directive appended last to the block being parsed
LastDirective ==
    stack[Len(stack)].Directives[Len(stack[Len(stack)].Directives)]

\* the errors a run ends with
LexicalError == pc = "done" /\ result.kind = "error" /\ result.err.kind = "lexical"

SemanticError == pc = "done" /\ result.kind = "error" /\ result.err.kind = "semantic"

\* the step appended node to the block being parsed
Accepted(node) == pc' = "parseBlock" /\ LastDirective' = node

----------------------------------------------------------------------------
(* Properties *)

\* C1: every opened block must be closed before end-of-input or parsing
\* fails: when the parseBlock of a nested block meets end-of-input, Parse
\* returns an error and no Config.
C1_UnclosedBlockFails ==
    [][(pc = "parseBlock" /\ Len(stack) > 1 /\ curTokenIs(EOF))
         => (pc' = "done" /\ result'.kind = "error")]_vars

\* C2: for every input, building a parser and calling Parse ends with a
\* Config or with an error; no input makes the program panic.
C2_NeverPanics == result.kind # "panic"

\* a semicolon ends the parameters of an include directive
IncludeEnds ==
    pc = "parseStatement" /\ curTokenIs(Semicolon) /\ Top.d.Name = W_include

\* C3: a semicolon-terminated include with exactly one parameter yields an
\* Include node whose path is that parameter; with zero or with two or more
\* parameters the parse returns a semantic error.
C3_IncludeArity ==
    [][IncludeEnds =>
         IF Len(Top.d.Parameters) = 1
         THEN \/ Accepted([Top.d EXCEPT !.variant = "Include",
                                        !.IncludePath = Top.d.Parameters[1]])
              \/ LexicalError'
         ELSE SemanticError']_vars

\* C4: an include directive that carries a nested block makes the parse fail
\* with a semantic error; it is never accepted as a node of the tree.
C4_IncludeBlockFails ==
    [][(pc = "parseBlock" /\ curTokenIs(BlockEnd)
          /\ Len(stack) > 1 /\ stack[Len(stack) - 1].d.Name = W_include)
         => SemanticError']_vars

\* the block of a location directive ends
LocationEnds ==
    /\ pc = "parseBlock"
    /\ curTokenIs(EOF) \/ curTokenIs(BlockEnd)
    /\ Len(stack) > 1
    /\ stack[Len(stack) - 1].d.Name = W_location

\* the Location a location directive d with this block is to become
LocationOf(d, block, modifier, match) ==
    [d EXCEPT !.variant = "Location", !.hasBlock = TRUE, !.Block = block,
              !.Modifier = modifier, !.Match = match]

\* C5: a location block directive with one parameter becomes a Location with
\* an empty modifier and that parameter as match; with two parameters the
\* modifier is the first and the match the second; with zero or with three or
\* more parameters the parse returns a semantic error.
C5_LocationArity ==
    [][LocationEnds =>
         CASE Len(stack[Len(stack) - 1].d.Parameters) = 1 ->
                \/ Accepted(LocationOf(stack[Len(stack) - 1].d, Top.Directives, <<>>,
                                       stack[Len(stack) - 1].d.Parameters[1]))
                \/ LexicalError'
           [] Len(stack[Len(stack) - 1].d.Parameters) = 2 ->
                \/ Accepted(LocationOf(stack[Len(stack) - 1].d, Top.Directives,
                                       stack[Len(stack) - 1].d.Parameters[1],
                                       stack[Len(stack) - 1].d.Parameters[2]))
                \/ LexicalError'
           [] OTHER -> SemanticError']_vars

\* a Location with a modifier and another match was appended
C5_Witness ==
    /\ pc = "parseBlock"
    /\ Top.Directives # <<>>
    /\ LastDirective.variant = "Location"
    /\ LastDirective.Modifier # <<>>
    /\ LastDirective.Match # LastDirective.Modifier

\* C6: parsing is fail-fast: the step that raises the first error ends the
\* parse with that error and no tree, and no step follows an error.
C6_FailFast ==
    [][/\ result.kind # "error"
       /\ result'.kind = "error" =>
            (pc' = "done" /\ stack' = <<>> /\ result'.Directives = <<>>)]_vars

\* Parse failed and left text unread
C6_Witness ==
    /\ result.kind = "error"
    /\ result.from = "Parse"
    /\ lexer.pos <= Len(lexer.input)

\* C7: when a block end or the end of input ends the parameters of a
\* statement, parseStatement returns a syntax error that reports that token
\* (kind, literal, line and column) and the parse aborts.
C7_UnexpectedToken ==
    [][(pc = "parseStatement" /\ (curTokenIs(BlockEnd) \/ curTokenIs(EOF)))
         => /\ pc' = "done"
            /\ result' = [kind |-> "error",
                          err |-> [kind |-> "syntax", msg |-> "unexpected token",
                                   tok |-> currentToken],
                          from |-> "Parse", Directives |-> <<>>]]_vars

\* server { a b c } failed on its block end
C7_Witness ==
    /\ lexer.input = T_MissingSemicolon
    /\ pc = "done"
    /\ result.kind = "error"
    /\ result.err.kind = "syntax"
    /\ result.err.tok.Type = BlockEnd
    /\ result.err.tok.Literal = <<"}">>

\* C8: every token returned by scan carries the 1-based line and the 1-based
\* column of its first character, on every line.
C8_TokenPositions ==
    [][Len(tokens') = Len(tokens) + 1 =>
         /\ tokens'[Len(tokens')].Line =
                RefLine(lexer.input, FirstNonSpace(lexer.input, lexer.pos))
         /\ tokens'[Len(tokens')].Column =
                RefColumn(lexer.input, FirstNonSpace(lexer.input, lexer.pos))]_vars

\* the token lexer.all appended in this step
Scanned1 == tokens[Len(tokens)]

\* C9: a quoted string is consumed up to the matching unescaped delimiter
\* and yields one quoted-string token whose literal is the delimiters around
\* the body with \n, \r, \t, \\ and \<delimiter> decoded and every other
\* backslash kept.
C9_QuotedString ==
    [][(pc = "all" /\ QuoteAhead(lexer)
          /\ RefQuotedAt(lexer.input, FirstNonSpace(lexer.input, lexer.pos)).ok)
         => /\ Len(tokens') = Len(tokens) + 1
            /\ Scanned1'.Type = QuotedString
            /\ Scanned1'.Literal =
                   <<lexer.input[FirstNonSpace(lexer.input, lexer.pos)]>>
                   \o RefQuotedAt(lexer.input, FirstNonSpace(lexer.input, lexer.pos)).lit
                   \o <<lexer.input[FirstNonSpace(lexer.input, lexer.pos)]>>
            /\ lexer'.pos =
                   RefQuotedAt(lexer.input, FirstNonSpace(lexer.input, lexer.pos)).next]_vars

\* "a\nb\\c\"d" was scanned to the literal "a<LF>b\c"d" (delimiters kept)
C9_Witness ==
    /\ lexer.input = T_Escapes
    /\ tokens = << [Type |-> QuotedString,
                    Literal |-> <<"\"", "a", "\n", "b", "\\", "c", "\"", "d", "\"">>,
                    Line |-> 1, Column |-> 0] >>

\* what the constructor returns for a lexical error
ConstructorError ==
    [kind |-> "error", err |-> ErrUnclosedQuote, from |-> "NewParserFromLexer",
     Directives |-> <<>>]

\* what Parse returns for a lexical error
ParseError ==
    [kind |-> "error", err |-> ErrUnclosedQuote, from |-> "Parse", Directives |-> <<>>]

\* C10: a scan that reaches end-of-input inside a quoted string fails with a
\* lexical error; among the first two tokens the constructor returns it, later
\* Parse returns it, in both cases without a Config; no other scan fails.
C10_UnterminatedString ==
    [][/\ pc = "new" =>
            IF UnterminatedAhead(lexer) \/ UnterminatedAhead(scan(lexer).s)
            THEN pc' = "done" /\ result' = ConstructorError
            ELSE pc' = "ready" /\ result' = NoResult
       /\ (pc # "new" /\ scans' > scans) =>
            IF UnterminatedAhead(lexer)
            THEN pc' = "done" /\ result' = ParseError
            ELSE result' = result]_vars

\* Parse returned the lexical error of a scan after the first two
C10_Witness ==
    /\ result = ParseError
    /\ scans > 2
    /\ lexer.input = T_UnterminatedLater

\* C11: round-trip stability: when a text parses to a Config, parsing the
\* rendering of that Config gives a Config equal to the first in names,
\* parameters and their order, nesting and variants; quoted parameters with
\* escape sequences included.
C11_RoundTrip ==
    (first.kind = "config" /\ pc = "done") => result = first

\* text holds line as a whole line, after the indentation of the line
HasLine(text, line) ==
    \E i \in 1..(Len(text) - Len(line) + 1) :
        /\ SubSeq(text, i, i + Len(line) - 1) = line
        /\ \E j \in 1..i :
               /\ j = 1 \/ text[j - 1] = "\n"
               /\ \A k \in j..(i - 1) : text[k] = " "
        /\ i + Len(line) - 1 = Len(text) \/ text[i + Len(line)] = "\n"

\* name=value of every entry, in the order written, one space before each
RECURSIVE SuppliedParameters(_)
SuppliedParameters(entries) ==
    IF entries = <<>> THEN <<>>
    ELSE <<" ">> \o KeyValue(Head(entries)) \o SuppliedParameters(Tail(entries))

\* server <address> <key=value ...> <flags ...>;
ServerLine(server) ==
    W_server \o <<" ">> \o server.Address \o SuppliedParameters(server.Parameters)
             \o SpaceBefore(server.Flags) \o <<";">>

\* the first upstream of a Config
FirstUpstream(res) == NodeAt(res.Directives, FindUpstreams(res.Directives)[1])

\* the servers of the upstream are those it had and one more, the last
OneMoreServer ==
    /\ Len(FirstUpstream(result).UpstreamServers)
           = Len(FirstUpstream(first).UpstreamServers) + 1
    /\ SubSeq(FirstUpstream(result).UpstreamServers, 1,
              Len(FirstUpstream(first).UpstreamServers))
           = FirstUpstream(first).UpstreamServers
    /\ LET new == FirstUpstream(result).UpstreamServers[
                      Len(FirstUpstream(result).UpstreamServers)]
       IN  /\ new.Address = supplied.Address
           /\ new.Params = MapOf(supplied.Parameters)
           /\ new.Flags = supplied.Flags

\* C12: AddServer on an Upstream with k servers yields k+1 servers, the new
\* one last and the earlier ones unchanged, and the rendered text has a line
\* for the new server with its address, its key=value parameters and its
\* flags, in the order supplied.
C12_AddServer ==
    (pc = "dumped" /\ supplied # NoServer) =>
        /\ OneMoreServer
        /\ HasLine(output, ServerLine(supplied))

\* the example: three servers and the line server 127.0.0.1:443 weight=5 down;
C12_Example ==
    (pc = "dumped" /\ supplied = ExampleServer /\ lexer.input = T_AddingServer) =>
        /\ Len(FirstUpstream(result).UpstreamServers) = 3
        /\ HasLine(output, W_server \o <<" ">> \o W_address \o <<" ">> \o W_weight
                             \o <<"=", "5", " ">> \o W_down \o <<";">>)

\* the servers are one more after AddServer
C12_OneMore == (pc = "dumped" /\ supplied # NoServer) => OneMoreServer

\* the tokenizer has returned the end-of-input token
EOFReached ==
    scans > 0 /\ lexer.Latest.Type = EOF /\ lexer.pos > Len(lexer.input)

\* how far the caller is from the return: a step without a scan moves down
Rank ==
    CASE pc = "done" -> 0
      [] pc = "parseBlock" -> 1
      [] OTHER -> 2

\* a natural number that every step makes smaller: the scans that are left
\* (every token but the end-of-input token takes a character, and the
\* end-of-input token is scanned at most twice), then the rank
Measure == 3 * (Len(lexer.input) + 2 - scans) + Rank

\* the caller has a step to take
CanStep ==
    \/ pc \in {"new", "ready"}
    \/ pc = "parseBlock" /\ Len(stack) >= 1
    \/ pc = "parseStatement" /\ Len(stack) >= 2

\* every step brings the return nearer, and a run stops only at a return
FinitelyManySteps ==
    /\ [][Measure' < Measure /\ Measure' >= 0]_vars
    /\ [][pc' # "done" => CanStep']_vars

\* every iteration of the loop of parseBlock scans once, and a scan after
\* the end-of-input token yields the end-of-input token and no error
ConsumesTokens ==
    /\ [][(pc = "parseBlock" /\ pc' # "done") => scans' = scans + 1]_vars
    /\ [][(EOFReached /\ scans' > scans) =>
             (followingToken'.Type = EOF /\ result' = result)]_vars

\* C13: parsing always terminates: every run reaches a returned Config or a
\* returned error after finitely many steps; every iteration of the loop of
\* parseBlock consumes a token; and after the end-of-input token every scan
\* returns the end-of-input token without error.
C13_Terminates ==
    /\ FinitelyManySteps
    /\ ConsumesTokens
    /\ [][pc' = "done" => result'.kind \in {"config", "error"}]_vars

\* every run ends after finitely many steps: with a Config, an error or a
\* panic
TerminatesSomehow == FinitelyManySteps /\ ConsumesTokens

\* what the parser of this text returned when it ran alone
AloneResult(text) ==
    (CHOOSE a \in {alone[i] : i \in 1..Len(alone)} : a.input = text).result

\* C14: parser instances share no state: when two parsers over two
\* different texts are advanced in any interleaving of their steps, each
\* ends with exactly the Config or the error it ends with when it runs alone.
C14_Independent ==
    Len(alone) = 2 =>
        /\ pc = "done" => result = AloneResult(lexer.input)
        /\ other.pc = "done" => other.result = AloneResult(other.lexer.input)

\* one parser has returned a Config while the other, which ends otherwise,
\* is in the middle of a statement
C14_Witness ==
    /\ Len(alone) = 2
    /\ pc = "done"
    /\ result.kind = "config"
    /\ other.pc = "parseStatement"
    /\ AloneResult(other.lexer.input).kind = "error"

\* the tokenizer of text after k scans
RECURSIVE LexerAfter(_, _)
LexerAfter(text, k) == IF k = 0 THEN lex(text) ELSE scan(LexerAfter(text, k - 1)).s

\* the k-th token of the stream of text; the end-of-input token repeats
TokenAt(text, k) == scan(LexerAfter(text, k - 1)).tok

\* C15: two-token window: a constructed parser has the first token of the
\* input as its current token and the second as its following token; after
\* every successful advance the current token is the previous following
\* token and the following token is the next token of the stream, so the
\* current token runs through the stream in order, one token at a time.
C15_TwoTokenWindow ==
    /\ [][(pc = "new" /\ pc' = "ready") =>
             /\ currentToken' = TokenAt(lexer.input, 1)
             /\ followingToken' = TokenAt(lexer.input, 2)
             /\ scans' = 2]_vars
    /\ [][(pc # "new" /\ scans' > scans /\ result'.kind # "error") =>
             /\ scans' = scans + 1
             /\ currentToken' = followingToken
             /\ currentToken' = TokenAt(lexer.input, scans' - 1)
             /\ followingToken' = TokenAt(lexer.input, scans')]_vars
    /\ [][scans' = scans =>
             (currentToken' = currentToken /\ followingToken' = followingToken)]_vars

\* TestParser_CurrFollow: the parser made for the text has the keyword as
\* current token and the block start as following token
C15_Witness ==
    /\ lexer.input = T_CurrFollow
    /\ pc = "ready"
    /\ curTokenIs(Keyword)
    /\ currentToken.Literal = W_server
    /\ followingTokenIs(BlockStart)

\* the tokens of a text, up to the end-of-input token or the first error
RECURSIVE RefTokensFrom(_)
RefTokensNext(v) ==
    IF v.err # NoErr \/ v.tok.Type = EOF THEN <<v.tok>>
    ELSE <<v.tok>> \o RefTokensFrom(v.s)

RefTokensFrom(l) == RefTokensNext(scan(l))

RefTokens(text) == RefTokensFrom(lex(text))

\* the number of blocks open after the tokens ts[i..], with depth open
\* before them; -1 when a block end comes with no block open
RECURSIVE RefDepth(_, _, _)
RefDepth(ts, i, depth) ==
    IF i > Len(ts) THEN depth
    ELSE IF ts[i].Type = BlockStart THEN RefDepth(ts, i + 1, depth + 1)
    ELSE IF ts[i].Type = BlockEnd
    THEN IF depth = 0 THEN -1 ELSE RefDepth(ts, i + 1, depth - 1)
    ELSE RefDepth(ts, i + 1, depth)

\* every block start has its block end and every block end its block start
Balanced(ts) == RefDepth(ts, 1, 0) = 0

\* index of the token that ends the parameters which start at i
RECURSIVE RefParametersEnd(_, _)
RefParametersEnd(ts, i) ==
    IF ts[i].Type \in {Semicolon, BlockStart, BlockEnd, EOF} THEN i
    ELSE RefParametersEnd(ts, i + 1)

\* index of the block end that closes the block whose first token is at i
RECURSIVE RefBlockEnd(_, _, _)
RefBlockEnd(ts, i, depth) ==
    IF ts[i].Type = EOF THEN i
    ELSE IF ts[i].Type = BlockEnd
    THEN IF depth = 0 THEN i ELSE RefBlockEnd(ts, i + 1, depth - 1)
    ELSE IF ts[i].Type = BlockStart THEN RefBlockEnd(ts, i + 1, depth + 1)
    ELSE RefBlockEnd(ts, i + 1, depth)

\* name, parameters and block of a node, without its variant
RefNode(name, parameters, hasBlock, block) ==
    [Name |-> name, Parameters |-> parameters, hasBlock |-> hasBlock, Block |-> block]

\* the statements written directly in the block that starts at token i and
\* ends before token j: a keyword starts a statement, whose parameters run
\* to the first ; { } or end of input and which ends with the ; or with the
\* block in braces; a block in braces that follows no name holds no
\* statement of this block; any other token is passed over
RECURSIVE RefBlock(_, _, _)
RefBlock(ts, i, j) ==
    IF i >= j THEN <<>>
    ELSE IF ts[i].Type = Keyword
    THEN IF ts[RefParametersEnd(ts, i + 1)].Type = BlockStart
         THEN << RefNode(ts[i].Literal,
                         [k \in 1..(RefParametersEnd(ts, i + 1) - i - 1) |->
                              ts[i + k].Literal],
                         TRUE,
                         RefBlock(ts, RefParametersEnd(ts, i + 1) + 1,
                                  RefBlockEnd(ts, RefParametersEnd(ts, i + 1) + 1, 0))) >>
              \o RefBlock(ts, RefBlockEnd(ts, RefParametersEnd(ts, i + 1) + 1, 0) + 1, j)
         ELSE IF ts[RefParametersEnd(ts, i + 1)].Type = Semicolon
         THEN << RefNode(ts[i].Literal,
                         [k \in 1..(RefParametersEnd(ts, i + 1) - i - 1) |->
                              ts[i + k].Literal],
                         FALSE, <<>>) >>
              \o RefBlock(ts, RefParametersEnd(ts, i + 1) + 1, j)
         ELSE RefBlock(ts, RefParametersEnd(ts, i + 1), j)
    ELSE IF ts[i].Type = BlockStart
    THEN RefBlock(ts, RefBlockEnd(ts, i + 1, 0) + 1, j)
    ELSE RefBlock(ts, i + 1, j)

\* the tree a text is written as
RefTree(text) == RefBlock(RefTokens(text), 1, Len(RefTokens(text)))

\* a block start stands where a statement is to start
RECURSIVE StrayBlockStart(_, _)
StrayBlockStart(ts, i) ==
    IF i > Len(ts) THEN FALSE
    ELSE IF ts[i].Type = Keyword
    THEN StrayBlockStart(ts, RefParametersEnd(ts, i + 1) + 1)
    ELSE IF ts[i].Type = BlockStart THEN TRUE
    ELSE StrayBlockStart(ts, i + 1)

\* name, parameters and nesting of the nodes of a block
RECURSIVE Shapes(_)
Shapes(block) ==
    [k \in 1..Len(block) |->
        RefNode(block[k].Name, block[k].Parameters, block[k].hasBlock,
                Shapes(block[k].Block))]

\* Parse returns a Config in this step, for a text with balanced braces
ReturnsBalanced ==
    /\ pc' = "done"
    /\ result'.kind = "config"
    /\ Balanced(RefTokens(lexer.input))

\* the block end that stops a nested parseBlock is left to the enclosing
\* loop, which consumes that token and no other
BlockEndLeftToCaller ==
    [][(pc = "parseBlock" /\ curTokenIs(BlockEnd) /\ Len(stack) > 1 /\ pc' # "done") =>
         /\ scans' = scans + 1
         /\ currentToken' = followingToken]_vars

\* C16: for every text that parses successfully with balanced braces the
\* tree mirrors the token stream: every block holds one node for each
\* statement written directly inside it, in source order, with the keyword's
\* literal as name and the literals of the tokens up to the first ; { } or
\* end of input as parameters; a nested parseBlock leaves its block end to
\* the enclosing loop, so later statements attach to the enclosing block.
C16_TreeMirrorsTokens ==
    /\ [][ReturnsBalanced => Shapes(result'.Directives) = RefTree(lexer.input)]_vars
    /\ BlockEndLeftToCaller

\* the same, for the texts in which every block start follows the name and
\* the parameters of a statement
MirrorsWithoutStrayBlockStart ==
    /\ [][(ReturnsBalanced /\ ~StrayBlockStart(RefTokens(lexer.input), 1)) =>
             Shapes(result'.Directives) = RefTree(lexer.input)]_vars
    /\ BlockEndLeftToCaller

\* the name of the directive of TestParser_VariableAsParameter
W_map == <<"m", "a", "p">>

\* a semicolon ends a statement whose name has no semicolon wrapper
EndsUnwrappedDirective ==
    /\ pc = "parseStatement"
    /\ curTokenIs(Semicolon)
    /\ Top.d.Name \notin {W_server, W_include}

\* a block ends whose statement has a name with no block wrapper
EndsUnwrappedBlock ==
    /\ pc = "parseBlock"
    /\ curTokenIs(EOF) \/ curTokenIs(BlockEnd)
    /\ Len(stack) > 1
    /\ stack[Len(stack) - 1].d.Name \notin {W_http, W_server, W_location, W_upstream}

\* the generic Directive with this name, these parameters and this block
Generic(name, parameters, hasBlock, block) ==
    [Directive(name) EXCEPT !.Parameters = parameters, !.hasBlock = hasBlock,
                            !.Block = block]

\* C17: a directive whose name has no wrapper registered for its form
\* (block wrappers: http, server, location, upstream; semicolon wrappers:
\* server, include) is returned as the generic Directive with its name, its
\* parameters and its nested block exactly as parsed.
C17_GenericDirective ==
    /\ [][EndsUnwrappedDirective =>
             \/ Accepted(Generic(Top.d.Name, Top.d.Parameters, FALSE, <<>>))
             \/ LexicalError']_vars
    /\ [][EndsUnwrappedBlock =>
             \/ Accepted(Generic(stack[Len(stack) - 1].d.Name,
                                 stack[Len(stack) - 1].d.Parameters,
                                 TRUE, Top.Directives))
             \/ LexicalError']_vars

\* map $host $clientname { default -; } gave the generic Directive map with
\* the parameters $host and $clientname and the directive default in its block
C17_Witness ==
    /\ lexer.input = T_VariableAsParameter
    /\ pc = "done"
    /\ result.kind = "config"
    /\ Len(result.Directives) = 1
    /\ result.Directives[1].variant = "Directive"
    /\ result.Directives[1].Name = W_map
    /\ result.Directives[1].Parameters =
           << <<"$", "h", "o", "s", "t">>,
              <<"$", "c", "l", "i", "e", "n", "t", "n", "a", "m", "e">> >>
    /\ Len(result.Directives[1].Block) = 1
    /\ result.Directives[1].Block[1].variant = "Directive"
    /\ result.Directives[1].Block[1].Parameters = << <<"-">> >>

\* a semicolon ends a server directive and the parse goes on
ServerDirectiveAccepted ==
    /\ pc = "parseStatement"
    /\ curTokenIs(Semicolon)
    /\ Top.d.Name = W_server
    /\ pc' = "parseBlock"

\* the statement being parsed is written directly in the block of an
\* upstream directive
InUpstream ==
    /\ Len(stack) >= 3
    /\ stack[Len(stack) - 2].fn = "parseStatement"
    /\ stack[Len(stack) - 2].d.Name = W_upstream

\* C18: a semicolon-terminated server directive becomes an UpstreamServer
\* only where it is written directly inside an upstream block; at top level
\* and in http, server, location or unknown blocks it does not.
C18_UpstreamServerContext ==
    [][ServerDirectiveAccepted =>
         (LastDirective'.variant = "UpstreamServer" <=> InUpstream)]_vars

\* inside an upstream block the server directive becomes an UpstreamServer
UpstreamMemberWrapped ==
    [][(ServerDirectiveAccepted /\ InUpstream) =>
         LastDirective'.variant = "UpstreamServer"]_vars

\* the root parseBlock stands at a block end: no block is open
StrayBlockEnd == pc = "parseBlock" /\ Len(stack) = 1 /\ curTokenIs(BlockEnd)

\* the root parseBlock stands at the end of input
RootAtEOF == pc = "parseBlock" /\ Len(stack) = 1 /\ curTokenIs(EOF)

\* Parse returns the directives parsed so far and reads nothing more
ReturnsConfigSoFar ==
    /\ pc' = "done"
    /\ result' = [kind |-> "config", err |-> NoErr, from |-> "Parse",
                  Directives |-> Top.Directives]
    /\ lexer' = lexer
    /\ scans' = scans

\* C19: the root parseBlock stops at a block end that has no open block
\* exactly as it stops at end-of-input: Parse returns a Config with the
\* directives before that block end, and the tokens after it are neither
\* read nor reported.
C19_StrayBlockEndStops ==
    /\ [][StrayBlockEnd => ReturnsConfigSoFar]_vars
    /\ [][RootAtEOF => ReturnsConfigSoFar]_vars

\* a; } b; gave a Config with the single directive a, and b; was not parsed
C19_Witness ==
    /\ lexer.input = T_StrayBlockEnd
    /\ pc = "done"
    /\ result.kind = "config"
    /\ Len(result.Directives) = 1
    /\ result.Directives[1].Name = <<"a">>
    /\ currentToken.Type = BlockEnd
    /\ lexer.pos <= Len(lexer.input)

====
